---- MODULE Spec2Model ----
(***************************************************************************)
(* Model of the reel creation pipeline of MemeDeliveryBot                  *)
(* (src/reel_creator): the segment splitter, the assembler with its        *)
(* background preparer and overlay timeline, the orchestrator              *)
(* generate_reel and the paths of its temporary files, the command         *)
(* handle_reel_command (src/reel_command.py) with the post scanner, the    *)
(* Instagram uploader and the cleanup of temporary files.                  *)
(*                                                                         *)
(* Text is a sequence of one-character strings.  Durations are natural     *)
(* numbers of one time unit (a second).                                    *)
(***************************************************************************)
EXTENDS Integers, Sequences, FiniteSets, TLC

VARIABLES
    \* --- split_text_into_segments called on its own ---
    text,           \* the argument text
    max_words,      \* the argument max_words
    segments,       \* the returned list of segments
    split_pc,       \* "call" before the call, "returned" after it, "idle"
    \* --- assemble_reel called on its own ---
    a_audio,        \* None (file cannot be opened) or the audio's duration
    a_images,       \* len(image_paths)
    a_durations,    \* image_durations: None or a list of durations
    a_bg,           \* probe result of background_video_path
    asm_pc,         \* "call" before the call, "returned" after it, "idle"
    asm,            \* what the last call of assemble_reel did
    \* --- prepare_background or chop_background called on its own ---
    b_fn,           \* the function called
    b_probe,        \* probe result of the source video
    b_desired,      \* the duration asked for
    b_is_9_16,      \* the argument is_already_9_16
    prep_pc,        \* "call" before the call, "returned" after it, "idle"
    prep,           \* what the call did
    \* --- generate_reel ---
    pc,                       \* position in generate_reel
    stages,                   \* the stages the job has been in, in order
    title, post_body, comments,
    todo,                     \* text segments not yet synthesized
    audio_segments_info,
    image_paths,
    image_durations,
    total_speech_duration,
    chopped_bg_video,         \* None or the duration of the chopped clip
    main_audio_for_assembly,  \* None or [path, real]
    pending,                  \* the value of the return statement reached
    result,                   \* what the caller got: "running", None, a path
    error,                    \* the exception generate_reel caught or let out
    teardown_ran,             \* the finally block has run
    tool_failed,              \* an external tool or the filesystem failed
    output_dir_files,         \* the files in output_directory
    log,                      \* the messages printed
    \* --- two generate_reel jobs side by side: the paths they use ---
    p_pc,           \* each job's position in generate_reel
    p_bg,           \* each job's background source: "local" or "url"
    p_touched,      \* each job's set of paths read or written so far
    \* --- handle_reel_command, run after run ---
    c_pc,           \* position in handle_reel_command
    c_url,          \* args.url: None or "url"
    c_no_upload,    \* args.no_upload
    ALLOW_NSFW_CONTENT,
    processed_file, \* the lines of PROCESSED_REEL_POSTS_FILE
    c_submissions,  \* what fetch_top_posts_from_subreddits returned
    c_loaded,       \* what get_processed_reel_ids returned
    c_selected,     \* what select_best_post returned
    c_on_file,      \* the lines of the file when the selection was made
    c_history,      \* the IDs selected automatically, run after run
    c_io_failed,    \* reading or appending to the file has failed
    c_generated,    \* the outcome of generate_reel in this run
    c_uploads,      \* calls of upload_reel in this run
    c_runs,         \* runs started
    \* --- upload_reel called on its own ---
    u_pc,           \* position in upload_reel
    u_max,          \* the argument max_polling_attempts
    u_attempt,      \* iterations of the polling loop begun
    u_polls,        \* the outcomes of the status requests made, in order
    u_status_code,  \* the local status_code: Unbound or the last value
    u_final_media_id,
    u_result,       \* "running", a media ID, or "raised"
    u_error,        \* the exception upload_reel let out
    \* --- cleanup_temp_files called on its own ---
    k_pc,           \* "call" before the call, "returned" after it, "idle"
    k_reel_id,      \* the argument reel_id
    k_base,         \* temp_base_dir exists
    k_dirs,         \* the reel directories in temp_base_dir
    k_files,        \* the loose files in temp_base_dir
    k_before,       \* k_base, k_dirs and k_files when the call was made
    k_rmtree_failed,\* shutil.rmtree raised OSError
    k_raised        \* the call let an exception out

splitVars == <<text, max_words, segments, split_pc>>

asmVars == <<a_audio, a_images, a_durations, a_bg, asm_pc>>

jobVars == <<pc, stages, title, post_body, comments, todo, audio_segments_info,
             image_paths, image_durations, total_speech_duration,
             chopped_bg_video, main_audio_for_assembly, pending, result, error,
             teardown_ran, tool_failed, output_dir_files, log>>

prepVars == <<b_fn, b_probe, b_desired, b_is_9_16, prep_pc, prep>>

pathVars == <<p_pc, p_bg, p_touched>>

cmdVars == <<c_pc, c_url, c_no_upload, ALLOW_NSFW_CONTENT, processed_file,
             c_submissions, c_loaded, c_selected, c_on_file, c_history,
             c_io_failed, c_generated, c_uploads, c_runs>>

upVars == <<u_pc, u_max, u_attempt, u_polls, u_status_code, u_final_media_id,
            u_result, u_error>>

cleanVars == <<k_pc, k_reel_id, k_base, k_dirs, k_files, k_before,
               k_rmtree_failed, k_raised>>

extVars == <<pathVars, cmdVars, upVars, cleanVars>>

runVars == <<splitVars, asmVars, asm, prepVars, jobVars>>

vars == <<runVars, extVars>>

(***************************************************************************)
(* Bounds of the model.                                                    *)
(***************************************************************************)
MaxTextWords == 9

MaxMixedWords == 6

MaxAudio == 4       \* longest narration of a direct assemble_reel call

MaxSlides == 3      \* most slides of a direct assemble_reel call

MaxSlideDur == 2    \* longest slide of a direct assemble_reel call

MaxBg == 4          \* longest background source

MaxComments == 4    \* most comments fetched

MaxTarget == 6      \* longest duration asked of a background function

(***************************************************************************)
(* Strings.                                                                *)
(***************************************************************************)
Max2(a, b) == IF a >= b THEN a ELSE b

Max3(a, b, c) == Max2(a, Max2(b, c))

\* The whitespace characters of the texts modelled: the space and the
\* newline (str.split() and str.strip() treat every whitespace alike).
Whitespace == {" ", "\n"}

\* str.split() with no argument: the maximal runs of non-whitespace.
RECURSIVE SplitWords(_, _, _)
SplitWords(s, i, cur) ==
    IF i > Len(s)
    THEN IF cur = <<>> THEN <<>> ELSE <<cur>>
    ELSE IF s[i] \in Whitespace
         THEN IF cur = <<>>
              THEN SplitWords(s, i + 1, <<>>)
              ELSE <<cur>> \o SplitWords(s, i + 1, <<>>)
         ELSE SplitWords(s, i + 1, Append(cur, s[i]))

PySplit(s) == SplitWords(s, 1, <<>>)

\* " ".join(words)
RECURSIVE PyJoin(_)
PyJoin(words) ==
    IF words = <<>> THEN <<>>
    ELSE IF Len(words) = 1 THEN words[1]
    ELSE words[1] \o <<" ">> \o PyJoin(Tail(words))

\* s.rfind(c + " "): the highest 0-based index of the two-character pattern,
\* -1 when it does not occur.
PyRFind(s, c) ==
    LET hits == {p \in 0..(Len(s) - 2) : s[p + 1] = c /\ s[p + 2] = " "}
    IN  IF hits = {} THEN -1 ELSE CHOOSE p \in hits : \A q \in hits : q <= p

\* s[a:b] for 0 <= a, with b clipped to len(s)
PySlice(s, a, b) == SubSeq(s, a + 1, IF b > Len(s) THEN Len(s) ELSE b)

\* s.strip()
RECURSIVE PyLStrip(_)
PyLStrip(s) ==
    IF s # <<>> /\ s[1] \in Whitespace THEN PyLStrip(Tail(s)) ELSE s

RECURSIVE PyRStrip(_)
PyRStrip(s) ==
    IF s # <<>> /\ s[Len(s)] \in Whitespace
    THEN PyRStrip(SubSeq(s, 1, Len(s) - 1))
    ELSE s

PyStrip(s) == PyRStrip(PyLStrip(s))

(***************************************************************************)
(* split_text_into_segments (src/reel_creator/main.py:87-120).             *)
(***************************************************************************)
\* mutant of SegmentFull: the segment is cut one word early
SegmentFull_Early(cur, n) == Len(cur) >= n - 1

\* mutant of SegmentFull: the threshold test is off by one
SegmentFull_OffByOne(cur, n) == Len(cur) > n

\* line 99: the running segment has reached max_words
SegmentFull(cur, n) == Len(cur) >= n

\* lines 102-106
SplitPos(segment_text) ==
    Max3(PyRFind(segment_text, "."), PyRFind(segment_text, "?"),
         PyRFind(segment_text, "!"))

\* line 108; max_words / 2 is a true division, so compare doubled
ReasonableSplit(segment_text, split_pos, n) ==
    split_pos > 0 /\ 2 * (Len(segment_text) - (split_pos + 1)) < n

\* line 110
CutHead(segment_text, split_pos) == PyStrip(PySlice(segment_text, 0, split_pos + 1))

\* mutant of CarryOver: the remainder slice starts one character late
CarryOver_SliceLate(segment_text, split_pos) ==
    PySplit(PySlice(segment_text, split_pos + 3, Len(segment_text)))

\* line 111
CarryOver(segment_text, split_pos) ==
    PySplit(PySlice(segment_text, split_pos + 2, Len(segment_text)))

\* lines 97-115: the loop over words, from word i on
RECURSIVE SplitLoop(_, _, _, _, _)
SplitLoop(words, i, cur0, segs, n) ==
    IF i > Len(words)
    THEN [segs |-> segs, cur |-> cur0]
    ELSE LET cur == Append(cur0, words[i])
         IN  IF SegmentFull(cur, n)
             THEN LET segment_text == PyJoin(cur)
                      split_pos == SplitPos(segment_text)
                  IN  IF ReasonableSplit(segment_text, split_pos, n)
                      THEN SplitLoop(words, i + 1, CarryOver(segment_text, split_pos),
                                     Append(segs, CutHead(segment_text, split_pos)), n)
                      ELSE SplitLoop(words, i + 1, <<>>, Append(segs, PyJoin(cur)), n)
             ELSE SplitLoop(words, i + 1, cur, segs, n)

\* line 120
NonEmptyOnly(segs) == SelectSeq(segs, LAMBDA s : s # <<>>)

\* mutant of split_text_into_segments: the words left in the running segment
\* after the loop are not appended
split_text_into_segments_NoRemainder(t, n) ==
    IF t = <<>> THEN <<>>
    ELSE NonEmptyOnly(SplitLoop(PySplit(t), 1, <<>>, <<>>, n).segs)

split_text_into_segments(t, n) ==
    IF t = <<>> THEN <<>>                                                \* 92
    ELSE LET r == SplitLoop(PySplit(t), 1, <<>>, <<>>, n)
             all == IF r.cur # <<>> THEN Append(r.segs, PyJoin(r.cur)) ELSE r.segs
         IN  NonEmptyOnly(all)

(***************************************************************************)
(* reel_assembler.py.  None is the string "None"; an error is named by its *)
(* exception class, "none" when nothing was raised.  A file that cannot be *)
(* opened or probed has the duration NoFile.  An optional list is a record *)
(* [given, list].                                                          *)
(***************************************************************************)
None == "None"

NoFile == 0 - 1

NoList == [given |-> FALSE, list |-> <<>>]

TheList(l) == [given |-> TRUE, list |-> l]

Min2(a, b) == IF a <= b THEN a ELSE b

\* mutant of get_video_duration: a failed probe gives a default duration
get_video_duration_DefaultOne(probe) == IF probe < 0 THEN 1 ELSE probe

\* A probe result is the stream's duration, or NoFile when ffmpeg.probe raises.
\* get_video_duration returns 0 on any exception (lines 18-26).
get_video_duration(probe) == IF probe < 0 THEN 0 ELSE probe

\* mutant of NumLoops: the extra repetition is left out
NumLoops_NoExtra(desired_duration, video_duration) ==
    desired_duration \div video_duration

\* line 54
NumLoops(desired_duration, video_duration) ==
    (desired_duration \div video_duration) + 1

\* Duration of what ffmpeg writes for input(ss=start, t=t) of a source of
\* duration d: t seconds from start, or what is left of the source.
FfmpegCut(d, start, t) == Min2(t, d - start)

\* prepare_background (lines 28-93) on a source with the given probe result;
\* start_time is the value random.uniform(0, video_duration - desired) gave.
\* Cropping (lines 68-90) re-encodes the clip and keeps its duration.
prepare_background(probe, desired_duration, start_time, is_already_9_16) ==
    LET video_duration == get_video_duration(probe)
    IN  IF video_duration = 0
        THEN [error |-> "ValueError", duration |-> 0, branch |-> "none",
              start |-> 0, loops |-> 0, path |-> None]
        ELSE IF video_duration > desired_duration
        THEN [error |-> "none",
              duration |-> FfmpegCut(video_duration, start_time, desired_duration),
              branch |-> "trim", start |-> start_time, loops |-> 0,
              path |-> IF is_already_9_16 THEN "processed_background.mp4"
                       ELSE "cropped_background.mp4"]
        ELSE LET num_loops == NumLoops(desired_duration, video_duration)
             IN  [error |-> "none",
                  duration |-> FfmpegCut(num_loops * video_duration, 0, desired_duration),
                  branch |-> "loop", start |-> 0, loops |-> num_loops,
                  path |-> IF is_already_9_16 THEN "processed_background.mp4"
                           ELSE "cropped_background.mp4"]

\* line 135: explicit durations are used only when the list is given, is
\* non-empty and is as long as the image list (durations is the argument image_durations).
UseProvidedDurations(durations, n_images) ==
    /\ durations.given
    /\ durations.list # <<>>
    /\ Len(durations.list) = n_images

\* lines 132-146: the overlay clips (start, duration) for provided durations
RECURSIVE ProvidedTimeline(_, _, _)
ProvidedTimeline(durations, i, current_time) ==
    IF i > Len(durations) THEN <<>>
    ELSE <<[start |-> current_time, duration |-> durations[i]]>>
         \o ProvidedTimeline(durations, i + 1, current_time + durations[i])

\* line 153; the title image shows for TitleSeconds or less
TitleSeconds == 3

\* lines 147-185: durations derived from the audio length.  Times of this
\* branch are in units of 1/den second, den = n_images - 1 (line 176 divides
\* the remainder among the other images).
RECURSIVE SharedClips(_, _, _, _)
SharedClips(i, n_images, current_time, duration_per_image) ==
    IF i > n_images THEN <<>>
    ELSE <<[start |-> current_time, duration |-> duration_per_image]>>
         \o SharedClips(i + 1, n_images, current_time + duration_per_image,
                        duration_per_image)

DerivedTimeline(n_images, total_audio_duration) ==
    LET title_duration == Min2(TitleSeconds, total_audio_duration)
        den == IF n_images > 1 THEN n_images - 1 ELSE 1
        remaining_duration == total_audio_duration - title_duration
    IN  IF n_images = 1
        THEN [den |-> 1,
              clips |-> <<[start |-> 0, duration |-> total_audio_duration]>>]
        ELSE [den |-> den,
              clips |-> <<[start |-> 0, duration |-> title_duration * den]>>
                        \o (IF remaining_duration > 0
                            THEN SharedClips(2, n_images, title_duration * den,
                                             remaining_duration)
                            ELSE <<>>)]

\* lines 132-185: clips_to_overlay
BuildTimeline(n_images, durations, total_audio_duration) ==
    IF UseProvidedDurations(durations, n_images)
    THEN [error |-> "none", source |-> "provided", den |-> 1,
          clips |-> ProvidedTimeline(durations.list, 1, 0)]
    ELSE IF n_images = 0
    THEN [error |-> "ValueError", source |-> "none", den |-> 1, clips |-> <<>>]
    ELSE LET d == DerivedTimeline(n_images, total_audio_duration)
         IN  [error |-> "none", source |-> "derived", den |-> d.den, clips |-> d.clips]

\* Line 124 reads the name background_is_9_16 and lines 223-224 read the name
\* output_path.  Neither is a parameter, a local or a module global of
\* reel_assembler.py, so reading either raises NameError.
background_is_9_16_bound == FALSE

output_path_bound == FALSE

\* An error raised before anything was composed; at names the expression
\* that raised.
NoBackground ==
    [error |-> "none", duration |-> 0, branch |-> "none", start |-> 0,
     loops |-> 0, path |-> None]

NoTimeline == [error |-> "none", source |-> "none", den |-> 1, clips |-> <<>>]

NoAssembly(err, at) ==
    [error |-> err, at |-> at, background |-> NoBackground, timeline |-> NoTimeline,
     video_written |-> FALSE, video_duration |-> 0, ret |-> None]

\* assemble_reel (lines 96-224).  audio is NoFile when the file cannot be
\* opened, else the duration AudioFileClip reports; bg_probe is the probe
\* result of background_video_path; start_time the random trim offset.
assemble_reel(audio, n_images, durations, bg_probe, start_time, output_filename) ==
    IF audio = NoFile THEN NoAssembly("OSError", "AudioFileClip")              \* 119
    ELSE IF ~background_is_9_16_bound
    THEN NoAssembly("NameError", "background_is_9_16")                       \* 124
    ELSE LET total_audio_duration == audio
             bg == prepare_background(bg_probe, total_audio_duration, start_time, FALSE)
             tl == BuildTimeline(n_images, durations, total_audio_duration)
         IN  IF bg.error # "none" THEN NoAssembly(bg.error, "prepare_background")
             ELSE IF tl.error # "none"
             THEN [NoAssembly(tl.error, "image_paths") EXCEPT !.background = bg]
             ELSE [error |-> IF output_path_bound THEN "none" ELSE "NameError",
                   at |-> IF output_path_bound THEN "none" ELSE "output_path",
                   background |-> bg,
                   timeline |-> tl,
                   video_written |-> TRUE,                          \* lines 204-212
                   video_duration |-> total_audio_duration,         \* line 196
                   ret |-> IF output_path_bound THEN output_filename ELSE None]

\* mutant of StartTimes: the offset is drawn from the whole source
StartTimes_WholeSource(probe, desired_duration) ==
    IF get_video_duration(probe) > desired_duration
    THEN 0..get_video_duration(probe)
    ELSE {0}

\* The offsets random.uniform(0, video_duration - desired) can give (whole
\* seconds); 0 when the source is not longer than desired.
StartTimes(probe, desired_duration) ==
    IF get_video_duration(probe) > desired_duration
    THEN 0..(get_video_duration(probe) - desired_duration)
    ELSE {0}

(***************************************************************************)
(* Inputs of the splitter: texts of up to MaxTextWords words over a plain  *)
(* word and a word ending a sentence, and texts of up to MaxMixedWords     *)
(* words that mix the three sentence terminators, with and without         *)
(* surrounding whitespace; and the texts of the first kind written with a  *)
(* newline, in place of the space, after each sentence.                    *)
(***************************************************************************)
Lexicon == {<<"a">>, <<"b", ".">>}

MixedLexicon == {<<"a">>, <<"b", ".">>, <<"c", "?">>, <<"d", "!">>}

WordLists == UNION {[1..k -> Lexicon] : k \in 0..MaxTextWords}

MixedWordLists == UNION {[1..k -> MixedLexicon] : k \in 0..MaxMixedWords}

\* The words, a newline after each word that ends in a full stop and a
\* space after each other word but the last.
RECURSIVE JoinLines(_)
JoinLines(words) ==
    IF words = <<>> THEN <<>>
    ELSE IF Len(words) = 1 THEN words[1]
    ELSE words[1]
         \o (IF words[1][Len(words[1])] = "." THEN <<"\n">> ELSE <<" ">>)
         \o JoinLines(Tail(words))

Texts ==
    {PyJoin(ws) : ws \in WordLists \cup MixedWordLists}
    \cup {<<" ">> \o PyJoin(ws) \o <<" ", " ">> : ws \in MixedWordLists}
    \cup {JoinLines(ws) : ws \in WordLists}

(***************************************************************************)
(* Values of the variables of the operations that a specification does not *)
(* run.                                                                    *)
(***************************************************************************)
Jobs == {"r1", "r2"}    \* the reel_id values of two jobs

Unbound == "Unbound"    \* a local variable that was never assigned

NoPost == [id |-> "None", score |-> 0, stickied |-> FALSE, over_18 |-> FALSE]

PathsIdle ==
    /\ p_pc = [j \in Jobs |-> "idle"]
    /\ p_bg = [j \in Jobs |-> [video |-> "local", audio |-> "local"]]
    /\ p_touched = [j \in Jobs |-> {}]

CmdIdle ==
    /\ c_pc = "idle"
    /\ c_url = None
    /\ c_no_upload = FALSE
    /\ ALLOW_NSFW_CONTENT = FALSE
    /\ processed_file = <<>>
    /\ c_submissions = <<>>
    /\ c_loaded = {}
    /\ c_selected = NoPost
    /\ c_on_file = <<>>
    /\ c_history = <<>>
    /\ c_io_failed = FALSE
    /\ c_generated = "none"
    /\ c_uploads = 0
    /\ c_runs = 0

UpIdle ==
    /\ u_pc = "idle"
    /\ u_max = 0
    /\ u_attempt = 0
    /\ u_polls = <<>>
    /\ u_status_code = Unbound
    /\ u_final_media_id = Unbound
    /\ u_result = "running"
    /\ u_error = "none"

CleanIdle ==
    /\ k_pc = "idle"
    /\ k_reel_id = None
    /\ k_base = FALSE
    /\ k_dirs = {}
    /\ k_files = {}
    /\ k_before = [base |-> FALSE, dirs |-> {}, files |-> {}]
    /\ k_rmtree_failed = FALSE
    /\ k_raised = FALSE

ExtIdle == PathsIdle /\ CmdIdle /\ UpIdle /\ CleanIdle

SplitIdle ==
    /\ text = <<>>
    /\ max_words = 1
    /\ segments = <<>>
    /\ split_pc = "idle"

AsmIdle ==
    /\ a_audio = NoFile
    /\ a_images = 0
    /\ a_durations = NoList
    /\ a_bg = NoFile
    /\ asm_pc = "idle"

PrepIdle ==
    /\ b_fn = "none"
    /\ b_probe = NoFile
    /\ b_desired = 0
    /\ b_is_9_16 = FALSE
    /\ prep_pc = "idle"
    /\ prep = NoBackground

JobIdle ==
    /\ pc = "idle"
    /\ stages = <<>>
    /\ title = <<>>
    /\ post_body = <<>>
    /\ comments = <<>>
    /\ todo = <<>>
    /\ audio_segments_info = <<>>
    /\ image_paths = <<>>
    /\ image_durations = <<>>
    /\ total_speech_duration = 0
    /\ chopped_bg_video = NoFile
    /\ main_audio_for_assembly = [path |-> None, real |-> NoFile]
    /\ pending = None
    /\ result = "running"
    /\ error = "none"
    /\ teardown_ran = FALSE
    /\ tool_failed = FALSE
    /\ output_dir_files = {}
    /\ log = {}

SplitInit ==
    /\ text \in Texts
    /\ max_words \in 1..(MaxTextWords + 1)
    /\ segments = <<>>
    /\ split_pc = "call"
    /\ AsmIdle
    /\ asm = NoAssembly("none", "none")
    /\ PrepIdle
    /\ JobIdle
    /\ ExtIdle

CallSplit ==
    /\ split_pc = "call"
    /\ segments' = split_text_into_segments(text, max_words)
    /\ split_pc' = "returned"
    /\ UNCHANGED <<text, max_words, asmVars, asm, prepVars, jobVars, extVars>>

SpecSplit == SplitInit /\ [][CallSplit]_vars

(***************************************************************************)
(* assemble_reel called on its own, with any arguments.                    *)
(***************************************************************************)
DurationLists == UNION {[1..k -> 0..MaxSlideDur] : k \in 0..MaxSlides}

AsmInit ==
    /\ a_audio \in {NoFile} \cup 0..MaxAudio
    /\ a_images \in 0..MaxSlides
    /\ a_durations \in {NoList} \cup {TheList(l) : l \in DurationLists}
    /\ a_bg \in {NoFile} \cup 0..MaxBg
    /\ asm_pc = "call"
    /\ asm = NoAssembly("none", "none")
    /\ SplitIdle
    /\ PrepIdle
    /\ JobIdle
    /\ ExtIdle

CallAssemble ==
    /\ asm_pc = "call"
    /\ \E start_time \in StartTimes(a_bg, a_audio) :
          asm' = assemble_reel(a_audio, a_images, a_durations, a_bg, start_time,
                               "test_reel.mp4")
    /\ asm_pc' = "returned"
    /\ UNCHANGED <<a_audio, a_images, a_durations, a_bg, splitVars, extVars, prepVars, jobVars>>

SpecAssemble == AsmInit /\ [][CallAssemble]_vars

(***************************************************************************)
(* generate_reel (src/reel_creator/main.py:125-379).                       *)
(***************************************************************************)
MAX_WORDS_PER_IMAGE_SEGMENT == 15

default_duration_per_image == 3

CommentsUsed == 3

\* The stages of a job, in the order of the code: directories (149-169),
\* content (175-186), slides (188-286), background (288-308), assembly
\* (310-351), relocation (353-357), return (359).
StageOrder ==
    <<"INIT", "CONTENT_FETCHED", "SEGMENTS_SYNTHESIZED", "BACKGROUND_READY",
      "ASSEMBLED", "RELOCATED", "DONE">>

\* Contents a post can have.
Titles == {<<>>, <<"H", "i">>}

LongBody == PyJoin([i \in 1..(MAX_WORDS_PER_IMAGE_SEGMENT + 1) |-> <<"a">>])

Bodies == {<<>>, <<" ">>, <<"a">>, LongBody}

CommentLists == {[i \in 1..k |-> <<"c">>] : k \in 0..MaxComments}

\* What synthesis of one segment gives: the duration save_mp3 reports (0
\* when the MP3's length cannot be read, gtts_engine.py:55-63) and the
\* real length of the audio in the file.
SegOutcomes ==
    {[duration |-> 1, real |-> 1], [duration |-> 2, real |-> 2],
     [duration |-> 0, real |-> 2]}

RECURSIVE SumOf(_, _)
SumOf(seq, field) ==
    IF seq = <<>> THEN 0 ELSE seq[1][field] + SumOf(Tail(seq), field)

RECURSIVE SumSeq(_)
SumSeq(seq) == IF seq = <<>> THEN 0 ELSE seq[1] + SumSeq(Tail(seq))

\* lines 189, 222-224, 247: the segments synthesized, in order
TitleSegments(t) ==
    IF t # <<>> THEN <<[kind |-> "title", index |-> 0, text |-> t]>> ELSE <<>>

BodySegments(b) ==
    IF b # <<>>
    THEN LET body_segments == split_text_into_segments(b, MAX_WORDS_PER_IMAGE_SEGMENT)
         IN  [i \in 1..Len(body_segments) |->
                 [kind |-> "body", index |-> i - 1, text |-> body_segments[i]]]
    ELSE <<>>

CommentSegments(c) ==
    [i \in 1..Min2(CommentsUsed, Len(c)) |->
        [kind |-> "comment", index |-> i - 1, text |-> c[i]]]

AllSegments(t, b, c) == TitleSegments(t) \o BodySegments(b) \o CommentSegments(c)

\* line 185
NoContent(t, b, c) == t = <<>> /\ b = <<>> /\ c = <<>>

\* mutant of NoSlides: the check for an empty slide list is missing
NoSlides_Unchecked(images, audios) == FALSE

\* line 267
NoSlides(images, audios) == images = <<>> \/ audios = <<>>

\* line 274
DurationsMissing(total, audios) == total = 0 /\ audios # <<>>

\* lines 270-279: the durations handed to the assembler
SlideDurations(images, audios) ==
    IF DurationsMissing(SumOf(audios, "duration"), audios)
    THEN [i \in 1..Len(images) |-> default_duration_per_image]
    ELSE [i \in 1..Len(audios) |-> audios[i].duration]

\* chop_background (reel_backgrounds.py:59-182), the video part: the
\* duration of the clip written to background/video.mp4
chop_background(probe, duration, start_time) ==
    LET video_duration == get_video_duration(probe)
    IN  IF video_duration <= 0                                       \* 107-108
        THEN [error |-> "ValueError", video |-> NoFile, start |-> 0]
        ELSE [error |-> "none",                                      \* 110-119
              video |-> FfmpegCut(video_duration, start_time, duration),
              start |-> start_time]

(***************************************************************************)
(* prepare_background and chop_background called on their own, on a source *)
(* of any probe result and for any duration.                               *)
(***************************************************************************)
PrepInit ==
    /\ b_fn \in {"prepare_background", "chop_background"}
    /\ b_probe \in {NoFile} \cup 0..MaxBg
    /\ b_desired \in 1..MaxTarget
    /\ b_is_9_16 \in BOOLEAN
    /\ prep_pc = "call"
    /\ prep = NoBackground
    /\ SplitIdle
    /\ AsmIdle
    /\ asm = NoAssembly("none", "none")
    /\ JobIdle
    /\ ExtIdle

CallPrepare ==
    /\ prep_pc = "call"
    /\ b_fn = "prepare_background"
    /\ \E start_time \in StartTimes(b_probe, b_desired) :
          prep' = prepare_background(b_probe, b_desired, start_time, b_is_9_16)
    /\ prep_pc' = "returned"
    /\ UNCHANGED <<b_fn, b_probe, b_desired, b_is_9_16, splitVars, extVars, asmVars, asm,
                   jobVars>>

CallChop ==
    /\ prep_pc = "call"
    /\ b_fn = "chop_background"
    /\ \E start_time \in StartTimes(b_probe, b_desired) :
          prep' = chop_background(b_probe, b_desired, start_time)
    /\ prep_pc' = "returned"
    /\ UNCHANGED <<b_fn, b_probe, b_desired, b_is_9_16, splitVars, extVars, asmVars, asm,
                   jobVars>>

PrepNext == CallPrepare \/ CallChop

SpecBackground == PrepInit /\ [][PrepNext]_vars

FinalReelFilename == "reel_id.mp4"

JobInit ==
    /\ pc = "makedirs"
    /\ stages = <<"INIT">>
    /\ title = <<>>
    /\ post_body = <<>>
    /\ comments = <<>>
    /\ todo = <<>>
    /\ audio_segments_info = <<>>
    /\ image_paths = <<>>
    /\ image_durations = <<>>
    /\ total_speech_duration = 0
    /\ chopped_bg_video = NoFile
    /\ main_audio_for_assembly = [path |-> None, real |-> NoFile]
    /\ pending = None
    /\ result = "running"
    /\ error = "none"
    /\ teardown_ran = FALSE
    /\ tool_failed = FALSE
    /\ output_dir_files = {}
    /\ log = {}

Init ==
    /\ JobInit
    /\ SplitIdle
    /\ AsmIdle
    /\ asm = NoAssembly("none", "none")
    /\ PrepIdle
    /\ ExtIdle

contentVars == <<title, post_body, comments>>

slideVars == <<todo, audio_segments_info, image_paths>>

totalVars == <<image_durations, total_speech_duration>>

\* mutant of Caught: the exception is recorded and the job carries on
Caught_CarriesOn(err) ==
    /\ pc' = pc
    /\ stages' = Append(stages, "FAILED")
    /\ error' = err
    /\ pending' = None

\* An exception raised inside the try block (174-359) is caught at 361 or
\* 366: the return value is None and the finally block is next.
Caught(err) ==
    /\ pc' = "finally"
    /\ stages' = Append(stages, "FAILED")
    /\ error' = err
    /\ pending' = None

\* lines 160-169: the output and the temp directory are made before the try
MakeDirs ==
    /\ pc = "makedirs"
    /\ pc' = "fetch"
    /\ UNCHANGED <<stages, contentVars, slideVars, totalVars, chopped_bg_video,
                   main_audio_for_assembly, pending, result, error, teardown_ran,
                   tool_failed, output_dir_files, log, splitVars, extVars, prepVars, asmVars, asm>>

\* os.makedirs raises (no permission, a file in the way): nothing catches it
MakeDirsFails ==
    /\ pc = "makedirs"
    /\ pc' = "raised"
    /\ error' = "OSError"
    /\ result' = "exception"
    /\ tool_failed' = TRUE
    /\ UNCHANGED <<stages, contentVars, slideVars, totalVars, chopped_bg_video,
                   main_audio_for_assembly, pending, teardown_ran,
                   output_dir_files, log, splitVars, extVars, prepVars, asmVars, asm>>

\* lines 183-186, fetch_reddit_content returning the post's content
FetchContent ==
    /\ pc = "fetch"
    /\ \E t \in Titles, b \in Bodies, c \in CommentLists :
          /\ title' = t
          /\ post_body' = b
          /\ comments' = c
          /\ IF NoContent(t, b, c)
             THEN /\ Caught("ValueError")
                  /\ todo' = todo
             ELSE /\ pc' = "synth"
                  /\ stages' = Append(stages, "CONTENT_FETCHED")
                  /\ todo' = AllSegments(t, b, c)
                  /\ UNCHANGED <<error, pending>>
    /\ UNCHANGED <<audio_segments_info, image_paths, totalVars, chopped_bg_video,
                   main_audio_for_assembly, result, teardown_ran, tool_failed,
                   output_dir_files, log, splitVars, extVars, prepVars, asmVars, asm>>

\* lines 30-38: the credentials are placeholders, fetch_reddit_content raises
FetchNotConfigured ==
    /\ pc = "fetch"
    /\ Caught("ValueError")
    /\ tool_failed' = TRUE
    /\ UNCHANGED <<contentVars, slideVars, totalVars, chopped_bg_video,
                   main_audio_for_assembly, result, teardown_ran,
                   output_dir_files, log, splitVars, extVars, prepVars, asmVars, asm>>

\* line 84: what fetch_reddit_content returns when the Reddit API raised;
\* the body is the message "Could not fetch content from Reddit: ..."
ErrorTitle == <<"E", "r", "r", "o", "r", " ", "T", "i", "t", "l", "e">>

ErrorBody == <<"C", "o", "u", "l", "d", " ", "n", "o", "t">>

\* mutant of FetchPlaceholder: the exception of the Reddit API is let through
FetchPlaceholder_Propagates ==
    /\ pc = "fetch"
    /\ Caught("Exception")
    /\ tool_failed' = TRUE
    /\ log' = log \cup {"Using placeholder content due to error."}
    /\ UNCHANGED <<contentVars, slideVars, totalVars, chopped_bg_video,
                   main_audio_for_assembly, result, teardown_ran,
                   output_dir_files, splitVars, extVars, prepVars, asmVars, asm>>

\* lines 81-84: the Reddit API raised, placeholder content is returned
FetchPlaceholder ==
    /\ pc = "fetch"
    /\ title' = ErrorTitle
    /\ post_body' = ErrorBody
    /\ comments' = <<>>
    /\ pc' = "synth"
    /\ stages' = Append(stages, "CONTENT_FETCHED")
    /\ todo' = AllSegments(ErrorTitle, ErrorBody, <<>>)
    /\ tool_failed' = TRUE
    /\ log' = log \cup {"Using placeholder content due to error."}
    /\ UNCHANGED <<audio_segments_info, image_paths, totalVars, chopped_bg_video,
                   main_audio_for_assembly, pending, result, error, teardown_ran,
                   output_dir_files, splitVars, extVars, prepVars, asmVars, asm>>

SegmentName(seg) == <<seg.kind, seg.index>>

\* lines 193-217, 225-244, 248-265: one segment's audio, then its image
SynthSegment ==
    /\ pc = "synth"
    /\ todo # <<>>
    /\ \E o \in SegOutcomes :
          /\ audio_segments_info' =
                Append(audio_segments_info,
                       [path |-> SegmentName(Head(todo)), duration |-> o.duration,
                        real |-> o.real])
          /\ log' = IF o.duration = 0
                    THEN log \cup {"Error reading MP3 duration"}
                    ELSE log
    /\ image_paths' = Append(image_paths, SegmentName(Head(todo)))
    /\ todo' = Tail(todo)
    /\ UNCHANGED <<pc, stages, contentVars, totalVars, chopped_bg_video,
                   main_audio_for_assembly, pending, result, error, teardown_ran,
                   tool_failed, output_dir_files, splitVars, extVars, prepVars, asmVars, asm>>

\* save_text_to_mp3 raises (gtts_engine.py:51-53, reel_tts.py re-raises)
SynthAudioFails ==
    /\ pc = "synth"
    /\ todo # <<>>
    /\ Caught("Exception")
    /\ tool_failed' = TRUE
    /\ UNCHANGED <<contentVars, slideVars, totalVars, chopped_bg_video,
                   main_audio_for_assembly, result, teardown_ran,
                   output_dir_files, log, splitVars, extVars, prepVars, asmVars, asm>>

\* mutant of SynthImageFails: a slide that cannot be rendered is skipped
SynthImageFails_Skips ==
    /\ pc = "synth"
    /\ todo # <<>>
    /\ \E o \in SegOutcomes :
          audio_segments_info' =
             Append(audio_segments_info,
                    [path |-> SegmentName(Head(todo)), duration |-> o.duration,
                     real |-> o.real])
    /\ todo' = Tail(todo)
    /\ tool_failed' = TRUE
    /\ UNCHANGED <<pc, stages, contentVars, image_paths, totalVars,
                   chopped_bg_video, main_audio_for_assembly, pending, result,
                   error, teardown_ran, output_dir_files, log, splitVars, extVars,
                   prepVars, asmVars, asm>>

\* imagemaker raises after the segment's audio was appended
SynthImageFails ==
    /\ pc = "synth"
    /\ todo # <<>>
    /\ \E o \in SegOutcomes :
          audio_segments_info' =
             Append(audio_segments_info,
                    [path |-> SegmentName(Head(todo)), duration |-> o.duration,
                     real |-> o.real])
    /\ Caught("Exception")
    /\ tool_failed' = TRUE
    /\ UNCHANGED <<contentVars, todo, image_paths, totalVars, chopped_bg_video,
                   main_audio_for_assembly, result, teardown_ran,
                   output_dir_files, log, splitVars, extVars, prepVars, asmVars, asm>>

\* lines 267-286
CheckSlides ==
    /\ pc = "synth"
    /\ todo = <<>>
    /\ IF NoSlides(image_paths, audio_segments_info)
       THEN /\ Caught("ValueError")
            /\ UNCHANGED <<totalVars, log>>
       ELSE /\ image_durations' = SlideDurations(image_paths, audio_segments_info)
            /\ total_speech_duration' =
                  SumSeq(SlideDurations(image_paths, audio_segments_info))
            /\ log' = IF DurationsMissing(SumOf(audio_segments_info, "duration"),
                                          audio_segments_info)
                      THEN log \cup {"Warning: Total speech duration is zero."}
                      ELSE log
            /\ pc' = "background"
            /\ stages' = Append(stages, "SEGMENTS_SYNTHESIZED")
            /\ UNCHANGED <<error, pending>>
    /\ UNCHANGED <<contentVars, slideVars, chopped_bg_video,
                   main_audio_for_assembly, result, teardown_ran, tool_failed,
                   output_dir_files, splitVars, extVars, prepVars, asmVars, asm>>

\* lines 288-308: the source is there and ffmpeg runs
ChopBackground ==
    /\ pc = "background"
    /\ \E probe \in {NoFile} \cup 0..MaxBg :
       \E start_time \in StartTimes(probe, total_speech_duration) :
          LET r == chop_background(probe, total_speech_duration, start_time)
          IN  IF r.error # "none"
              THEN /\ Caught(r.error)
                   /\ tool_failed' = TRUE
                   /\ UNCHANGED chopped_bg_video
              ELSE /\ chopped_bg_video' = r.video
                   /\ pc' = "concat"
                   /\ stages' = Append(stages, "BACKGROUND_READY")
                   /\ UNCHANGED <<error, pending, tool_failed>>
    /\ UNCHANGED <<contentVars, slideVars, totalVars, main_audio_for_assembly,
                   result, teardown_ran, output_dir_files, log, splitVars, extVars, prepVars,
                   asmVars, asm>>

\* reel_backgrounds.py:93-104, 121-123: no source can be obtained, or ffmpeg
\* fails on it
ChopBackgroundFails ==
    /\ pc = "background"
    /\ \E e \in {"FileNotFoundError", "ffmpeg.Error"} : Caught(e)
    /\ tool_failed' = TRUE
    /\ UNCHANGED <<contentVars, slideVars, totalVars, chopped_bg_video,
                   main_audio_for_assembly, result, teardown_ran,
                   output_dir_files, log, splitVars, extVars, prepVars, asmVars, asm>>

\* mutant of SingleAudio: a single clip is sent through the concatenation
SingleAudio_Concatenates ==
    /\ pc = "concat"
    /\ Len(audio_segments_info) = 1
    /\ main_audio_for_assembly' =
          [path |-> <<"full_speech", 0>>, real |-> SumOf(audio_segments_info, "real")]
    /\ log' = log \cup {"Concatenating audio segments..."}
    /\ pc' = "assemble"
    /\ UNCHANGED <<stages, contentVars, slideVars, totalVars, chopped_bg_video,
                   pending, result, error, teardown_ran, tool_failed,
                   output_dir_files, splitVars, extVars, prepVars, asmVars, asm>>

\* lines 335-336: a single clip is the narration track
SingleAudio ==
    /\ pc = "concat"
    /\ Len(audio_segments_info) = 1
    /\ main_audio_for_assembly' =
          [path |-> audio_segments_info[1].path, real |-> audio_segments_info[1].real]
    /\ pc' = "assemble"
    /\ UNCHANGED <<stages, contentVars, slideVars, totalVars, chopped_bg_video,
                   pending, result, error, teardown_ran, tool_failed,
                   output_dir_files, log, splitVars, extVars, prepVars, asmVars, asm>>

\* lines 314-328: ffmpeg joins the clips
ConcatAudio ==
    /\ pc = "concat"
    /\ Len(audio_segments_info) > 1
    /\ main_audio_for_assembly' =
          [path |-> <<"full_speech", 0>>, real |-> SumOf(audio_segments_info, "real")]
    /\ log' = log \cup {"Concatenating audio segments..."}
    /\ pc' = "assemble"
    /\ UNCHANGED <<stages, contentVars, slideVars, totalVars, chopped_bg_video,
                   pending, result, error, teardown_ran, tool_failed,
                   output_dir_files, splitVars, extVars, prepVars, asmVars, asm>>

\* lines 329-331: ffmpeg exits with an error
ConcatFails ==
    /\ pc = "concat"
    /\ Len(audio_segments_info) > 1
    /\ Caught("ValueError")
    /\ log' = log \cup {"Concatenating audio segments..."}
    /\ tool_failed' = TRUE
    /\ UNCHANGED <<contentVars, slideVars, totalVars, chopped_bg_video,
                   main_audio_for_assembly, result, teardown_ran,
                   output_dir_files, splitVars, extVars, prepVars, asmVars, asm>>

\* mutant of ConcatNoFfmpeg: the missing tool is reported and the job fails
ConcatNoFfmpeg_Fails ==
    /\ pc = "concat"
    /\ Len(audio_segments_info) > 1
    /\ Caught("FileNotFoundError")
    /\ log' = log \cup {"Concatenating audio segments...",
                        "ERROR: ffmpeg command not found. Cannot concatenate audio."}
    /\ tool_failed' = TRUE
    /\ UNCHANGED <<contentVars, slideVars, totalVars, chopped_bg_video,
                   main_audio_for_assembly, result, teardown_ran,
                   output_dir_files, splitVars, extVars, prepVars, asmVars, asm>>

\* lines 332-334: there is no ffmpeg, the first clip is the narration track
ConcatNoFfmpeg ==
    /\ pc = "concat"
    /\ Len(audio_segments_info) > 1
    /\ main_audio_for_assembly' =
          [path |-> audio_segments_info[1].path, real |-> audio_segments_info[1].real]
    /\ log' = log \cup {"Concatenating audio segments...",
                        "ERROR: ffmpeg command not found. Cannot concatenate audio."}
    /\ tool_failed' = TRUE
    /\ pc' = "assemble"
    /\ UNCHANGED <<stages, contentVars, slideVars, totalVars, chopped_bg_video,
                   pending, result, error, teardown_ran, output_dir_files,
                   splitVars, extVars, prepVars, asmVars, asm>>

\* lines 341-359: assemble_reel, then the move into output_directory and
\* the return statement
Assemble ==
    /\ pc = "assemble"
    /\ \E start_time \in StartTimes(chopped_bg_video, main_audio_for_assembly.real),
          rename_ok \in BOOLEAN :
          LET r == assemble_reel(main_audio_for_assembly.real, Len(image_paths),
                                 TheList(image_durations), chopped_bg_video,
                                 start_time, FinalReelFilename)
          IN  /\ asm' = r
              /\ IF r.error # "none"
                 THEN /\ Caught(r.error)
                      /\ UNCHANGED <<output_dir_files, tool_failed>>
                 ELSE IF ~rename_ok
                 THEN /\ Caught("OSError")
                      /\ tool_failed' = TRUE
                      /\ UNCHANGED output_dir_files
                 ELSE /\ output_dir_files' = output_dir_files \cup {r.ret}
                      /\ pending' = r.ret
                      /\ stages' = stages \o <<"ASSEMBLED", "RELOCATED">>
                      /\ pc' = "finally"
                      /\ UNCHANGED <<error, tool_failed>>
    /\ UNCHANGED <<contentVars, slideVars, totalVars, chopped_bg_video,
                   main_audio_for_assembly, result, teardown_ran, log,
                   splitVars, extVars, prepVars, asmVars>>

\* lines 371-379: the finally block (PERFORM_CLEANUP is False), then the
\* caller gets the return value
Teardown ==
    /\ pc = "finally"
    /\ teardown_ran' = TRUE
    /\ log' = log \cup {"Skipping cleanup"}
    /\ result' = pending
    /\ stages' = IF pending # None THEN Append(stages, "DONE") ELSE stages
    /\ pc' = "returned"
    /\ UNCHANGED <<contentVars, slideVars, totalVars, chopped_bg_video,
                   main_audio_for_assembly, pending, error, tool_failed,
                   output_dir_files, splitVars, extVars, prepVars, asmVars, asm>>

Next ==
    \/ MakeDirs
    \/ MakeDirsFails
    \/ FetchContent
    \/ FetchNotConfigured
    \/ FetchPlaceholder
    \/ SynthSegment
    \/ SynthAudioFails
    \/ SynthImageFails
    \/ CheckSlides
    \/ ChopBackground
    \/ ChopBackgroundFails
    \/ SingleAudio
    \/ ConcatAudio
    \/ ConcatFails
    \/ ConcatNoFfmpeg
    \/ Assemble
    \/ Teardown

Spec == Init /\ [][Next]_vars

(***************************************************************************)
(* The paths of the temporary and intermediate files of generate_reel, and *)
(* two jobs with distinct reel_id values running side by side.  A path is  *)
(* the sequence of its components.                                         *)
(***************************************************************************)
ASSETS_DIR == <<"reel_creator", "assets">>

TEMP_DIR_BASE == ASSETS_DIR \o <<"temp">>

DOWNLOAD_PATH == <<"assets", "backgrounds">>

current_reel_temp_dir(reel_id) == TEMP_DIR_BASE \o <<reel_id>>

\* save_text_to_mp3 with output_dir = current_reel_temp_dir/mp3
Mp3Path(reel_id, filename) == current_reel_temp_dir(reel_id) \o <<"mp3", filename>>

\* imagemaker with folder_name = reel_id/img
ImagePath(reel_id, id) == ASSETS_DIR \o <<reel_id, "img", id>>

download_video(output_path, video_id) == output_path \o <<video_id>>

\* The files chop_background reads and writes for a job: a URL is downloaded
\* to a fixed name, a local file is the caller's own and is only read.
ChopPaths(reel_id, bg) ==
    (IF bg.video = "url"
        THEN {download_video(DOWNLOAD_PATH \o <<"videos">>, "downloaded_bg_video.mp4")}
        ELSE {})
    \cup (IF bg.audio = "url"
             THEN {download_video(DOWNLOAD_PATH \o <<"audios">>, "downloaded_bg_audio.mp4")}
             ELSE {})
    \cup {<<"assets", "temp", reel_id, "background", "video.mp4">>,
          <<"assets", "temp", reel_id, "background", "audio.mp3">>}

ConcatPaths(reel_id) ==
    {Mp3Path(reel_id, "ffmpeg_audio_list.txt"), Mp3Path(reel_id, "full_speech.mp3")}

\* The files of prepare_background and the video assemble_reel writes.
AssemblyPaths(reel_id, output_filename) ==
    {TEMP_DIR_BASE \o <<reel_id, "background", "processed_background.mp4">>,
     <<"assets", "temp", reel_id, "concat_list.txt">>,
     TEMP_DIR_BASE \o <<reel_id, "background", "cropped_background.mp4">>,
     current_reel_temp_dir(reel_id) \o <<output_filename>>}

\* What assemble_reel touches before the unbound name of line 124 stops it.
AssemblyPathsReached(reel_id) ==
    {current_reel_temp_dir(reel_id), Mp3Path(reel_id, "full_speech.mp3")}

PathsInit ==
    /\ p_pc = [j \in Jobs |-> "makedirs"]
    /\ p_bg \in [Jobs -> [video : {"local", "url"}, audio : {"local", "url"}]]
    /\ p_touched = [j \in Jobs |-> {}]
    /\ SplitIdle
    /\ AsmIdle
    /\ asm = NoAssembly("none", "none")
    /\ PrepIdle
    /\ JobIdle
    /\ CmdIdle
    /\ UpIdle
    /\ CleanIdle

JobStep(j, at, paths, to) ==
    /\ p_pc[j] = at
    /\ p_touched' = [p_touched EXCEPT ![j] = @ \cup paths]
    /\ p_pc' = [p_pc EXCEPT ![j] = to]
    /\ UNCHANGED <<p_bg, runVars, cmdVars, upVars, cleanVars>>

PMakeDirs(j) ==
    JobStep(j, "makedirs", {current_reel_temp_dir(j)}, "title")

PTitle(j) ==
    JobStep(j, "title",
            {Mp3Path(j, "title_audio.mp3"), ImagePath(j, "img_title.png")}, "body")

PBody(j) ==
    JobStep(j, "body",
            {Mp3Path(j, "body_audio_0.mp3"), ImagePath(j, "img_body_0.png")},
            "comments")

PComments(j) ==
    JobStep(j, "comments",
            {Mp3Path(j, "comment_audio_0.mp3"), ImagePath(j, "img_comment_0.png")},
            "background")

PBackground(j) ==
    JobStep(j, "background", ChopPaths(j, p_bg[j]), "concat")

PConcat(j) ==
    JobStep(j, "concat", ConcatPaths(j), "assemble")

PAssemble(j) ==
    JobStep(j, "assemble", AssemblyPathsReached(j), "finally")

\* PERFORM_CLEANUP is False: the finally block removes nothing.
PFinally(j) ==
    JobStep(j, "finally", {}, "done")

PathsNext ==
    \E j \in Jobs :
        \/ PMakeDirs(j)
        \/ PTitle(j)
        \/ PBody(j)
        \/ PComments(j)
        \/ PBackground(j)
        \/ PConcat(j)
        \/ PAssemble(j)
        \/ PFinally(j)

SpecPaths == PathsInit /\ [][PathsNext]_vars

(***************************************************************************)
(* handle_reel_command, run after run, with the post scanner it calls.     *)
(* generate_reel and upload_reel are the calls it makes; the command sees  *)
(* of them only what they return or raise.                                 *)
(***************************************************************************)
MaxRuns == 3        \* runs of the command, one after the other

MaxScore == 2       \* highest score of a submission

PostIds == {"p1", "p2"}

Submissions == [id : PostIds, score : 1..MaxScore, stickied : BOOLEAN,
                over_18 : BOOLEAN]

\* What fetch_top_posts_from_subreddits can return: posts of different
\* subreddits, so no post twice; the empty list when nothing could be fetched.
FetchLists ==
    {<<>>} \cup {<<s>> : s \in Submissions}
    \cup {<<s, t>> : <<s, t>> \in {st \in Submissions \X Submissions :
                                      st[1].id # st[2].id}}

\* The set built from the first `read` lines of the file: all of them when
\* the file is read to its end, fewer when open or read raises OSError.
get_processed_reel_ids(file, read) == {file[i] : i \in 1..read}

\* The file after the append, or as it was when the write raises OSError.
add_processed_reel_id(file, post_id, written) ==
    IF written THEN Append(file, post_id) ELSE file

\* Python's max(posts, key=score): the first of the posts of maximal score.
PyMaxByScore(posts) ==
    posts[CHOOSE i \in 1..Len(posts) :
             /\ \A j \in 1..Len(posts) : posts[j].score <= posts[i].score
             /\ \A j \in 1..(i - 1) : posts[j].score < posts[i].score]

\* mutant of select_best_post: the filter for stickied posts is missing
select_best_post_KeepsStickied(submissions, processed_post_ids, allow_nsfw) ==
    LET NotNsfw(s) == ~s.over_18
        NotProcessed(s) == s.id \notin processed_post_ids
        non_nsfw == IF ~allow_nsfw THEN SelectSeq(submissions, NotNsfw)
                                   ELSE submissions
        suitable == IF processed_post_ids # {}
                       THEN SelectSeq(non_nsfw, NotProcessed)
                       ELSE non_nsfw
    IN  IF suitable = <<>> THEN NoPost ELSE PyMaxByScore(suitable)

select_best_post(submissions, processed_post_ids, allow_nsfw) ==
    LET NotStickied(s) == ~s.stickied
        NotNsfw(s) == ~s.over_18
        NotProcessed(s) == s.id \notin processed_post_ids
        not_stickied == SelectSeq(submissions, NotStickied)
        non_nsfw == IF ~allow_nsfw THEN SelectSeq(not_stickied, NotNsfw)
                                   ELSE not_stickied
        suitable == IF processed_post_ids # {}
                       THEN SelectSeq(non_nsfw, NotProcessed)
                       ELSE non_nsfw
    IN  IF submissions = <<>> THEN NoPost
        ELSE IF suitable = <<>> THEN NoPost
        ELSE PyMaxByScore(suitable)

\* generate_reel raises, returns None, returns a path where no file is, or
\* returns the path of the video file.
GenerateOutcomes == {"raises", None, "missing", "file"}

CmdInit ==
    /\ c_pc = "start"
    /\ c_url = None
    /\ c_no_upload = FALSE
    /\ ALLOW_NSFW_CONTENT \in BOOLEAN
    /\ processed_file = <<>>
    /\ c_submissions = <<>>
    /\ c_loaded = {}
    /\ c_selected = NoPost
    /\ c_on_file = <<>>
    /\ c_history = <<>>
    /\ c_io_failed = FALSE
    /\ c_generated = "none"
    /\ c_uploads = 0
    /\ c_runs = 0
    /\ SplitIdle
    /\ AsmIdle
    /\ asm = NoAssembly("none", "none")
    /\ PrepIdle
    /\ JobIdle
    /\ PathsIdle
    /\ UpIdle
    /\ CleanIdle

\* The command is started: with a URL or without, with --no_upload or without.
StartRun ==
    /\ c_pc \in {"start", "returned"}
    /\ c_runs < MaxRuns
    /\ c_runs' = c_runs + 1
    /\ c_url' \in {None, "url"}
    /\ c_no_upload' \in BOOLEAN
    /\ c_submissions' = <<>>
    /\ c_loaded' = {}
    /\ c_selected' = NoPost
    /\ c_on_file' = processed_file
    /\ c_generated' = "none"
    /\ c_uploads' = 0
    /\ c_pc' = IF c_url' = None THEN "auto" ELSE "outdir"
    /\ UNCHANGED <<ALLOW_NSFW_CONTENT, processed_file, c_history, c_io_failed,
                   runVars, pathVars, upVars, cleanVars>>

\* Automatic selection: fetch, select, record the selected ID.
AutoSelect ==
    /\ c_pc = "auto"
    /\ \/ \E submissions \in FetchLists, read \in 0..Len(processed_file),
             written \in BOOLEAN :
            LET loaded == get_processed_reel_ids(processed_file, read)
                selected == select_best_post(submissions, loaded,
                                             ALLOW_NSFW_CONTENT)
            IN  /\ c_submissions' = submissions
                /\ c_on_file' = processed_file
                /\ IF submissions = <<>>
                      THEN /\ c_pc' = "returned"
                           /\ UNCHANGED <<c_loaded, c_selected, processed_file,
                                          c_history, c_io_failed>>
                      ELSE /\ c_loaded' = loaded
                           /\ c_selected' = selected
                           /\ IF selected = NoPost
                                 THEN /\ c_pc' = "returned"
                                      /\ c_io_failed' =
                                            (c_io_failed \/ read < Len(processed_file))
                                      /\ UNCHANGED <<processed_file, c_history>>
                                 ELSE /\ processed_file' =
                                            add_processed_reel_id(processed_file,
                                                                  selected.id, written)
                                      /\ c_history' = Append(c_history, selected.id)
                                      /\ c_io_failed' =
                                            (c_io_failed \/ read < Len(processed_file)
                                                \/ ~written)
                                      /\ c_pc' = "outdir"
       \/ \* a scanner function raises: line 79
          /\ c_pc' = "returned"
          /\ UNCHANGED <<c_submissions, c_loaded, c_selected, c_on_file,
                         processed_file, c_history, c_io_failed>>
    /\ UNCHANGED <<c_url, c_no_upload, ALLOW_NSFW_CONTENT, c_generated, c_uploads,
                   c_runs, runVars, pathVars, upVars, cleanVars>>

MakeOutputDir ==
    /\ c_pc = "outdir"
    /\ \E made \in BOOLEAN : c_pc' = IF made THEN "generate" ELSE "returned"
    /\ UNCHANGED <<c_url, c_no_upload, ALLOW_NSFW_CONTENT, processed_file,
                   c_submissions, c_loaded, c_selected, c_on_file, c_history,
                   c_io_failed, c_generated, c_uploads, c_runs,
                   runVars, pathVars, upVars, cleanVars>>

\* mutant of Generate: the returned path is not checked
Generate_Unchecked ==
    /\ c_pc = "generate"
    /\ c_generated' \in GenerateOutcomes
    /\ c_pc' = IF c_generated' = "raises" THEN "returned" ELSE "upload"
    /\ UNCHANGED <<c_url, c_no_upload, ALLOW_NSFW_CONTENT, processed_file,
                   c_submissions, c_loaded, c_selected, c_on_file, c_history,
                   c_io_failed, c_uploads, c_runs,
                   runVars, pathVars, upVars, cleanVars>>

Generate ==
    /\ c_pc = "generate"
    /\ c_generated' \in GenerateOutcomes
    /\ c_pc' = IF c_generated' = "file" THEN "upload" ELSE "returned"
    /\ UNCHANGED <<c_url, c_no_upload, ALLOW_NSFW_CONTENT, processed_file,
                   c_submissions, c_loaded, c_selected, c_on_file, c_history,
                   c_io_failed, c_uploads, c_runs,
                   runVars, pathVars, upVars, cleanVars>>

\* upload_reel is called unless --no_upload; whatever it returns or raises is
\* printed and the command ends.
Upload ==
    /\ c_pc = "upload"
    /\ c_uploads' = IF ~c_no_upload /\ c_generated # None THEN c_uploads + 1
                                                         ELSE c_uploads
    /\ c_pc' = "returned"
    /\ UNCHANGED <<c_url, c_no_upload, ALLOW_NSFW_CONTENT, processed_file,
                   c_submissions, c_loaded, c_selected, c_on_file, c_history,
                   c_io_failed, c_generated, c_runs,
                   runVars, pathVars, upVars, cleanVars>>

CmdNext == StartRun \/ AutoSelect \/ MakeOutputDir \/ Generate \/ Upload

SpecCommand == CmdInit /\ [][CmdNext]_vars

(***************************************************************************)
(* upload_reel called on its own, with any max_polling_attempts and any    *)
(* answers of the API.                                                     *)
(***************************************************************************)
MaxPolls == 3       \* largest max_polling_attempts

\* What one status request can bring: a status_code of the container, a
\* status other than 200 (HTTP_ERROR), or a failed request (REQUEST_ERROR).
PollOutcomes == {"FINISHED", "PUBLISHED", "ERROR", "EXPIRED", "IN_PROGRESS",
                 "OTHER", "HTTP_ERROR", "REQUEST_ERROR"}

UpInit ==
    /\ u_pc = "prepare"
    /\ u_max \in 0..MaxPolls
    /\ u_attempt = 0
    /\ u_polls = <<>>
    /\ u_status_code = Unbound
    /\ u_final_media_id = Unbound
    /\ u_result = "running"
    /\ u_error = "none"
    /\ SplitIdle
    /\ AsmIdle
    /\ asm = NoAssembly("none", "none")
    /\ PrepIdle
    /\ JobIdle
    /\ PathsIdle
    /\ CmdIdle
    /\ CleanIdle

\* One step of upload_reel before the polling loop: it goes on, or raises.
UpStep(at, errors, to) ==
    /\ u_pc = at
    /\ \/ /\ u_pc' = to
          /\ UNCHANGED <<u_result, u_error>>
       \/ /\ u_pc' = "returned"
          /\ u_result' = "raised"
          /\ u_error' \in errors
    /\ UNCHANGED <<u_max, u_attempt, u_polls, u_status_code>>
    /\ UNCHANGED <<runVars, pathVars, cmdVars, cleanVars>>

UPrepare ==
    /\ UpStep("prepare", {"FileNotFoundError", "ConfigurationError"}, "container")
    /\ UNCHANGED u_final_media_id

UCreateContainer ==
    /\ UpStep("container", {"APIError: create media container"}, "upload")
    /\ UNCHANGED u_final_media_id

UUploadVideo ==
    /\ UpStep("upload", {"APIError: upload video file", "FileNotFoundError"},
              "publish")
    /\ UNCHANGED u_final_media_id

\* media_publish answers with the ID of the media or without one
UPublish ==
    /\ UpStep("publish", {"APIError: publish media container"}, "poll")
    /\ IF u_pc' = "poll" THEN u_final_media_id' \in {"media_id", None}
                         ELSE UNCHANGED u_final_media_id

\* One iteration of the polling loop.  An APIError raised in the try block,
\* that of line 308 for ERROR and EXPIRED included, is caught at line 317.
UPoll ==
    /\ u_pc = "poll"
    /\ u_attempt < u_max
    /\ u_attempt' = u_attempt + 1
    /\ \E response \in PollOutcomes :
          /\ u_polls' = Append(u_polls, response)
          /\ u_status_code' = IF response \in {"HTTP_ERROR", "REQUEST_ERROR"}
                                 THEN u_status_code ELSE response
          /\ IF response \in {"FINISHED", "PUBLISHED"}
                THEN /\ u_result' = IF u_final_media_id # None
                                       THEN u_final_media_id
                                       ELSE "ig_container_id"
                     /\ u_pc' = "returned"
                ELSE UNCHANGED <<u_result, u_pc>>
    /\ UNCHANGED <<u_max, u_final_media_id, u_error>>
    /\ UNCHANGED <<runVars, pathVars, cmdVars, cleanVars>>

\* The loop is over: line 322 builds the message of the APIError from
\* status_code, which no iteration may have assigned.
UTimeout ==
    /\ u_pc = "poll"
    /\ u_attempt = u_max
    /\ u_pc' = "returned"
    /\ u_result' = "raised"
    /\ u_error' = IF u_status_code = Unbound THEN "UnboundLocalError"
                                             ELSE "APIError: timed out"
    /\ UNCHANGED <<u_max, u_attempt, u_polls, u_status_code, u_final_media_id>>
    /\ UNCHANGED <<runVars, pathVars, cmdVars, cleanVars>>

UpNext ==
    \/ UPrepare
    \/ UCreateContainer
    \/ UUploadVideo
    \/ UPublish
    \/ UPoll
    \/ UTimeout

SpecUpload == UpInit /\ [][UpNext]_vars

(***************************************************************************)
(* cleanup_temp_files called on its own.  The file system is the base      *)
(* directory (there or not), the reel directories in it and its loose      *)
(* files; `removed` are the entries the operating system lets go.          *)
(***************************************************************************)
ReelIds == {"test_reel_001", "test_reel_002", "test_reel_003"}

LooseFiles == {"loose_file.txt"}

\* mutant of cleanup_temp_files: the reel_id is ignored
cleanup_temp_files_WholeBase(reel_id, fs, removed) ==
    IF fs.base
       THEN [fs EXCEPT !.dirs = @ \ removed, !.files = @ \ removed]
       ELSE fs

\* A reel_id that is None (or empty) takes the second branch, which empties
\* the base directory.
cleanup_temp_files(reel_id, fs, removed) ==
    IF reel_id # None
       THEN IF reel_id \in fs.dirs
               THEN [fs EXCEPT !.dirs = @ \ ({reel_id} \cap removed)]
               ELSE fs
       ELSE IF fs.base
               THEN [fs EXCEPT !.dirs = @ \ removed, !.files = @ \ removed]
               ELSE fs

CleanInit ==
    /\ k_pc = "call"
    /\ k_reel_id \in ReelIds \cup {None}
    /\ k_base \in BOOLEAN
    /\ k_dirs \in IF k_base THEN SUBSET ReelIds ELSE {{}}
    /\ k_files \in IF k_base THEN SUBSET LooseFiles ELSE {{}}
    /\ k_before = [base |-> k_base, dirs |-> k_dirs, files |-> k_files]
    /\ k_rmtree_failed = FALSE
    /\ k_raised = FALSE
    /\ SplitIdle
    /\ AsmIdle
    /\ asm = NoAssembly("none", "none")
    /\ PrepIdle
    /\ JobIdle
    /\ PathsIdle
    /\ CmdIdle
    /\ UpIdle

\* Every exception of a removal is caught and printed: lines 19, 45, 52.
CallCleanup ==
    /\ k_pc = "call"
    /\ \E removed \in SUBSET (k_dirs \cup k_files) :
          LET after == cleanup_temp_files(k_reel_id, k_before, removed)
          IN  /\ k_base' = after.base
              /\ k_dirs' = after.dirs
              /\ k_files' = after.files
              /\ k_rmtree_failed' =
                    (k_reel_id # None /\ k_reel_id \in k_dirs
                        /\ k_reel_id \notin removed)
    /\ k_raised' = FALSE
    /\ k_pc' = "returned"
    /\ UNCHANGED <<k_reel_id, k_before, runVars, pathVars, cmdVars, upVars>>

SpecCleanup == CleanInit /\ [][CallCleanup]_vars

(***************************************************************************)
(* Claims about the splitter.                                              *)
(***************************************************************************)
WordCount(s) == Len(PySplit(s))

RECURSIVE WordsOfAll(_)
WordsOfAll(segs) ==
    IF segs = <<>> THEN <<>> ELSE PySplit(segs[1]) \o WordsOfAll(Tail(segs))

\* C1: every segment returned by split_text_into_segments(t, n), n > 0, has
\* at most n whitespace-separated words; hence a text of W words yields at
\* least W / n segments (100 words with n = 15: at least 6).
C1_SegmentsAtMostMaxWords ==
    split_pc = "returned" =>
        /\ \A i \in 1..Len(segments) : WordCount(segments[i]) <= max_words
        /\ Len(segments) * max_words >= WordCount(text)

\* C1 witness: a call of a text of more than max_words words returned a
\* segment cut at a sentence terminator and a segment of exactly max_words
\* words.
C1_Witness ==
    /\ split_pc = "returned"
    /\ WordCount(text) > max_words
    /\ Len(segments) >= 2
    /\ WordCount(segments[1]) < max_words
    /\ WordCount(segments[2]) = max_words

\* C2: the words of the returned segments, in segment order, are exactly
\* the words of t (t.split()): none lost, duplicated, altered or reordered.
C2_WordsPreserved ==
    split_pc = "returned" => WordsOfAll(segments) = PySplit(text)

\* C2 witness: a call in which a segment was cut at a sentence terminator
\* and the remainder was carried into the next segment.
C2_Witness ==
    /\ split_pc = "returned"
    /\ Len(segments) >= 2
    /\ WordCount(segments[1]) < max_words
    /\ WordsOfAll(segments) = PySplit(text)

(***************************************************************************)
(* The splitting rule stated on words: when the running segment holds n    *)
(* words and one of its words but the last ends a sentence, the tail is    *)
(* what follows the last such word.                                        *)
(***************************************************************************)
EndsSentence(w) == w # <<>> /\ w[Len(w)] \in {".", "?", "!"}

\* The index of the last word of cur, other than its last, that ends a
\* sentence; 0 when there is none.
LastSentenceEnd(cur) ==
    LET ends == {k \in 1..(Len(cur) - 1) : EndsSentence(cur[k])}
    IN  IF ends = {} THEN 0 ELSE CHOOSE k \in ends : \A j \in ends : j <= k

TailWords(cur) == SubSeq(cur, LastSentenceEnd(cur) + 1, Len(cur))

\* The length of the tail in words.
TailInWords(cur) == Len(TailWords(cur))

\* The length of the tail in characters, with the space that follows the
\* terminator.
TailInChars(cur) == Len(PyJoin(TailWords(cur))) + 1

\* The rule of the splitter, with the tail measured in words (inWords) or in
\* characters: cut after the last sentence end when there is one and twice
\* the tail is less than n, carrying the tail; else cut at the n words and
\* carry nothing.
RECURSIVE RuleLoop(_, _, _, _, _, _)
RuleLoop(words, i, cur0, segs, n, inWords) ==
    IF i > Len(words)
    THEN IF cur0 # <<>> THEN Append(segs, PyJoin(cur0)) ELSE segs
    ELSE LET cur == Append(cur0, words[i])
             k == LastSentenceEnd(cur)
             tail == IF inWords THEN TailInWords(cur) ELSE TailInChars(cur)
         IN  IF Len(cur) < n
             THEN RuleLoop(words, i + 1, cur, segs, n, inWords)
             ELSE IF k > 0 /\ 2 * tail < n
             THEN RuleLoop(words, i + 1, TailWords(cur),
                           Append(segs, PyJoin(SubSeq(cur, 1, k))), n, inWords)
             ELSE RuleLoop(words, i + 1, <<>>, Append(segs, PyJoin(cur)), n, inWords)

\* The first max_words words of the text: the running segment when it first
\* reaches max_words.
FirstFull == SubSeq(PySplit(text), 1, max_words)

\* C11: when the running segment reaches max_words words, if a sentence
\* terminator occurs in it and the tail after the last one is less than half
\* of max_words (words), the segment is cut right after that terminator and
\* the tail starts the next segment; in every other case the segment is cut
\* at exactly max_words words and nothing is carried over.
C11_CutAtSentenceEnd ==
    split_pc = "returned" =>
        segments = RuleLoop(PySplit(text), 1, <<>>, <<>>, max_words, TRUE)

\* With the tail measured in characters (line 108: len(segment_text) -
\* (split_pos + 1)), the rule is what the code does.
CutAtSentenceEndByChars ==
    split_pc = "returned" =>
        segments = RuleLoop(PySplit(text), 1, <<>>, <<>>, max_words, FALSE)

\* A call where the two measures part: the first max_words words hold a
\* sentence end followed by a tail of less than max_words / 2 words and at
\* least max_words / 2 characters.
TailMeasuresPart ==
    /\ split_pc = "returned"
    /\ WordCount(text) >= max_words
    /\ LastSentenceEnd(FirstFull) > 0
    /\ 2 * TailInWords(FirstFull) < max_words
    /\ 2 * TailInChars(FirstFull) >= max_words

\* C12: every text with fewer words than max_words yields exactly one
\* segment.
C12_ShortTextOneSegment ==
    (split_pc = "returned" /\ WordCount(text) < max_words) => Len(segments) = 1

\* C12 amended: a text with at least one word and fewer words than max_words
\* yields exactly one segment, its words joined by single spaces; a text
\* with no word (empty or whitespace only) yields no segment.
C12_ShortTextWithWordsOneSegment ==
    (split_pc = "returned" /\ WordCount(text) < max_words) =>
        IF WordCount(text) = 0
        THEN segments = <<>>
        ELSE segments = <<PyJoin(PySplit(text))>>

\* C12 witness: a text of several words, fewer than max_words, with a
\* sentence end inside and whitespace around, came back as one segment.
C12_Witness ==
    /\ split_pc = "returned"
    /\ WordCount(text) >= 3
    /\ WordCount(text) < max_words
    /\ LastSentenceEnd(PySplit(text)) > 0
    /\ text[1] = " "
    /\ Len(segments) = 1

\* No '. ', '? ' or '! ' occurs in s.
NoTerminatorIn(s) ==
    PyRFind(s, ".") < 0 /\ PyRFind(s, "?") < 0 /\ PyRFind(s, "!") < 0

\* The segments are the text's words in runs of max_words: all but the last
\* of exactly max_words words, the last of 1 to max_words, and
\* ceil(word_count / max_words) of them.
ForceSplit ==
    /\ Len(segments) = (WordCount(text) + max_words - 1) \div max_words
    /\ \A i \in 1..(Len(segments) - 1) : WordCount(segments[i]) = max_words
    /\ Len(segments) > 0 =>
          /\ WordCount(segments[Len(segments)]) >= 1
          /\ WordCount(segments[Len(segments)]) <= max_words

\* C13: every text that contains no sentence terminator ('. ', '? ', '! ')
\* is force-split at word boundaries: every segment but the last has exactly
\* max_words words, the last has 1 to max_words, and there are
\* ceil(word_count / max_words) segments.
C13_NoTerminatorForceSplit ==
    (split_pc = "returned" /\ NoTerminatorIn(text)) => ForceSplit

\* C13 amended: the same for every text whose words, joined by single
\* spaces, contain no sentence terminator: no word but the last ends a
\* sentence.
C13_NoSentenceEndForceSplit ==
    (split_pc = "returned" /\ NoTerminatorIn(PyJoin(PySplit(text)))) => ForceSplit

\* C13 witness: a text with no sentence end before its last word came back
\* as at least three segments, the last of them short.
C13_Witness ==
    /\ split_pc = "returned"
    /\ Len(segments) >= 3
    /\ NoTerminatorIn(PyJoin(PySplit(text)))
    /\ EndsSentence(PySplit(text)[WordCount(text)])
    /\ WordCount(segments[1]) = max_words
    /\ max_words >= 2
    /\ WordCount(segments[Len(segments)]) < max_words

(***************************************************************************)
(* Claims about the assembler.                                             *)
(***************************************************************************)
\* A direct call with a readable audio track, a background of positive
\* duration and one duration per image.
MatchingCall ==
    /\ a_audio # NoFile
    /\ a_bg > 0
    /\ a_images >= 1
    /\ a_durations.given
    /\ Len(a_durations.list) = a_images

\* The clips start at 0, each ends where the next starts, and the last ends
\* at the sum of the durations.
Contiguous(clips, durations) ==
    /\ Len(clips) = Len(durations)
    /\ clips[1].start = 0
    /\ \A i \in 1..(Len(clips) - 1) :
          clips[i].start + clips[i].duration = clips[i + 1].start
    /\ clips[Len(clips)].start + clips[Len(clips)].duration = SumSeq(durations)

\* C3: for k >= 1 slides with durations d_1..d_k passed to the assembler with
\* a matching image list, the overlay timeline has k entries, starts at 0,
\* is contiguous, and ends at the sum of the d_i.
C3_TimelineContiguous ==
    (asm_pc = "returned" /\ MatchingCall) =>
        /\ asm.timeline.source = "provided"
        /\ Contiguous(asm.timeline.clips, a_durations.list)

\* The loop of lines 135-146 taken alone does build such a timeline; what
\* C3 lacks is a call of assemble_reel that gets as far as the loop.
TimelineLoopContiguous ==
    MatchingCall =>
        Contiguous(BuildTimeline(a_images, a_durations, a_audio).clips,
                   a_durations.list)

\* A direct call with an explicit duration list of the wrong length.
MismatchedCall == a_durations.given /\ Len(a_durations.list) # a_images

TimelineLoopRejectsMismatch ==
    (MismatchedCall /\ a_audio # NoFile /\ a_images >= 1) =>
        BuildTimeline(a_images, a_durations, a_audio).error # "none"

\* A direct call with a readable narration of positive duration, a
\* background of positive duration and at least one image.
UsableCall == a_audio > 0 /\ a_bg > 0 /\ a_images >= 1

\* C17: the assembled video's duration is the duration of the narration
\* track given to assemble_reel, whatever the background's length and the
\* sum of the slide durations.
C17_VideoAsLongAsNarration ==
    (asm_pc = "returned" /\ UsableCall) =>
        /\ asm.video_written
        /\ asm.video_duration = a_audio

\* A direct call with the narration or the background file missing, or
\* with a narration of zero duration.
UnusableCall == a_audio = NoFile \/ a_bg = NoFile \/ a_audio = 0

MissingAudioFails ==
    (asm_pc = "returned" /\ a_audio = NoFile) =>
        (asm.error = "OSError" /\ asm.at = "AudioFileClip" /\ ~asm.video_written)

(***************************************************************************)
(* Claims about the background functions.                                  *)
(***************************************************************************)
\* The duration of the clip the call wrote.
PrepCut == IF b_fn = "chop_background" THEN prep.video ELSE prep.duration

SourceDuration == get_video_duration(b_probe)

\* C14: in the trim branch (source duration D greater than the target T)
\* the start offset s satisfies 0 <= s <= D - T, so the window [s, s + T]
\* lies inside the source and the clip cut has length exactly T.
C14_TrimWindowInsideSource ==
    (prep_pc = "returned" /\ SourceDuration > b_desired) =>
        /\ prep.error = "none"
        /\ prep.start >= 0
        /\ prep.start <= SourceDuration - b_desired
        /\ prep.start + b_desired <= SourceDuration
        /\ PrepCut = b_desired
        /\ b_fn = "prepare_background" => prep.branch = "trim"

\* C14 witness: prepare_background trimmed a longer source at the last
\* offset that fits.
C14_Witness ==
    /\ prep_pc = "returned"
    /\ b_fn = "prepare_background"
    /\ SourceDuration > b_desired
    /\ prep.branch = "trim"
    /\ prep.start > 0
    /\ prep.start = SourceDuration - b_desired

\* C15: in the loop branch (0 < D <= T) prepare_background repeats the
\* source floor(T / D) + 1 times, and loops * D >= T also when D = T or T is
\* a multiple of D, so the cut to T stays inside the looped material.
C15_LoopsCoverTarget ==
    (prep_pc = "returned" /\ b_fn = "prepare_background"
       /\ SourceDuration > 0 /\ SourceDuration <= b_desired) =>
        /\ prep.error = "none"
        /\ prep.branch = "loop"
        /\ prep.loops = (b_desired \div SourceDuration) + 1
        /\ prep.loops * SourceDuration >= b_desired
        /\ prep.duration = b_desired

\* C15 witness: the target is twice the source, which was repeated three
\* times.
C15_Witness ==
    /\ prep_pc = "returned"
    /\ b_fn = "prepare_background"
    /\ SourceDuration > 0
    /\ b_desired = 2 * SourceDuration
    /\ prep.branch = "loop"
    /\ prep.loops = 3

\* C16: when the source's duration cannot be probed or is zero, the
\* background function raises before any trim, loop or crop and returns no
\* clip; a failed probe is never used as a duration.
C16_NoDurationFails ==
    (prep_pc = "returned" /\ b_probe \in {NoFile, 0}) =>
        /\ prep.error # "none"
        /\ b_fn = "prepare_background" =>
              (prep.branch = "none" /\ prep.path = None /\ prep.duration = 0)
        /\ b_fn = "chop_background" => prep.video = NoFile

\* C16 witness: prepare_background on a source whose probe raised.
C16_Witness ==
    /\ prep_pc = "returned"
    /\ b_fn = "prepare_background"
    /\ b_probe = NoFile
    /\ prep.error = "ValueError"

(***************************************************************************)
(* Claims about generate_reel.                                             *)
(***************************************************************************)
AssembleCalled == asm.at # "none" \/ asm.video_written

\* C4: for a background of duration D > 0 and a narration of duration T > 0,
\* the background clip that reaches the compositor, after chop_background
\* and prepare_background, has duration exactly T (trimmed when longer,
\* looped and truncated when not).
C4_BackgroundMatchesNarration ==
    (AssembleCalled /\ chopped_bg_video > 0 /\ main_audio_for_assembly.real > 0) =>
        /\ asm.background.branch \in {"trim", "loop"}
        /\ asm.background.duration = main_audio_for_assembly.real

\* chop_background followed by prepare_background, taken alone, do give a
\* clip as long as the narration; what C4 lacks is a call of assemble_reel
\* that gets as far as prepare_background.
PreparedBackgroundMatches ==
    (pc = "assemble" /\ chopped_bg_video > 0) =>
        \A start_time \in StartTimes(chopped_bg_video, main_audio_for_assembly.real) :
            prepare_background(chopped_bg_video, main_audio_for_assembly.real,
                               start_time, FALSE).duration
                = main_audio_for_assembly.real

\* C5: if any step of generate_reel fails, from the creation of the
\* directories on, the job moves to FAILED, the teardown runs, and only
\* then the caller gets None; no exception leaves generate_reel.
C5_FailureReturnsNoneAfterTeardown ==
    /\ (error # "none" /\ pc \in {"returned", "raised"}) =>
          /\ stages[Len(stages)] = "FAILED"
          /\ teardown_ran
          /\ result = None
    /\ result = None => teardown_ran
    /\ pc # "raised"

\* Content that gives no slide: no title, a body that splits into no
\* segment, no comment.
ZeroSlideContent ==
    /\ title = <<>>
    /\ BodySegments(post_body) = <<>>
    /\ comments = <<>>

\* C6: content with zero usable slides makes generate_reel fail with a
\* content error before background preparation or assembly, return None,
\* and create no output file.
C6_ZeroSlidesFail ==
    ZeroSlideContent =>
        /\ pc \notin {"background", "concat", "assemble"}
        /\ chopped_bg_video = NoFile
        /\ ~AssembleCalled
        /\ output_dir_files = {}
        /\ pc = "returned" => (result = None /\ error = "ValueError")

\* C6 witness: a whitespace-only body, no title, no comments: the content
\* was fetched, no slide came of it, and the job returned None.
C6_Witness ==
    /\ title = <<>>
    /\ post_body = <<" ">>
    /\ comments = <<>>
    /\ ~tool_failed
    /\ stages = <<"INIT", "CONTENT_FETCHED", "FAILED">>
    /\ pc = "returned"
    /\ result = None

\* A post with a title, an empty body and no comments.
TitleOnly == title # <<>> /\ post_body = <<>> /\ comments = <<>>

\* C7: for a title-only post with every external tool succeeding,
\* generate_reel makes one slide and one audio segment, skips the
\* concatenation, reaches DONE and returns the path of a video as long as
\* the title's narration.
C7_TitleOnlySucceeds ==
    (pc = "returned" /\ TitleOnly /\ ~tool_failed) =>
        /\ Len(image_paths) = 1
        /\ Len(audio_segments_info) = 1
        /\ main_audio_for_assembly.path = audio_segments_info[1].path
        /\ stages = StageOrder
        /\ result = FinalReelFilename
        /\ result \in output_dir_files
        /\ asm.video_duration = audio_segments_info[1].real

IsPrefix(s, t) == Len(s) <= Len(t) /\ \A i \in 1..Len(s) : s[i] = t[i]

Last(s) == s[Len(s)]

\* The stages visited, without a closing FAILED.
Visited ==
    IF Last(stages) = "FAILED" THEN SubSeq(stages, 1, Len(stages) - 1) ELSE stages

\* C8: a run visits the stages only in the order INIT, CONTENT_FETCHED,
\* SEGMENTS_SYNTHESIZED, BACKGROUND_READY, ASSEMBLED, RELOCATED, DONE: each
\* stage's code runs only when the stage before it is complete, none is
\* skipped or repeated, a returned path implies all of them, and nothing
\* follows FAILED.
C8_StagesInOrder ==
    /\ IsPrefix(Visited, StageOrder)
    /\ pc \in {"makedirs", "fetch"} => stages = <<"INIT">>
    /\ pc = "synth" => Last(stages) = "CONTENT_FETCHED"
    /\ pc = "background" => Last(stages) = "SEGMENTS_SYNTHESIZED"
    /\ pc \in {"concat", "assemble"} => Last(stages) = "BACKGROUND_READY"
    /\ Last(stages) = "FAILED" => pc \in {"finally", "returned"}
    /\ result \notin {"running", None, "exception"} => stages = StageOrder

\* C8 witness: a job that went through every stage up to the background
\* and then failed in assembly.
C8_Witness ==
    /\ pc = "returned"
    /\ stages = <<"INIT", "CONTENT_FETCHED", "SEGMENTS_SYNTHESIZED",
                  "BACKGROUND_READY", "FAILED">>

\* C9: every duration handed to the assembler is greater than zero: for
\* each segment whose synthesis reported no duration the fallback duration
\* is substituted and a warning printed, whatever the other segments report.
C9_DurationsPositive ==
    pc = "assemble" =>
        /\ \A i \in 1..Len(image_durations) : image_durations[i] > 0
        /\ \A i \in 1..Len(audio_segments_info) :
              audio_segments_info[i].duration = 0 =>
                 /\ image_durations[i] = default_duration_per_image
                 /\ "Warning: Total speech duration is zero." \in log

\* C19: when the job has exactly one narration clip, no concatenation is
\* performed and the narration track passed to the assembler is that clip's
\* own path, unchanged.
C19_SingleClipPassedUnchanged ==
    (Len(audio_segments_info) = 1 /\ (pc = "assemble" \/ AssembleCalled)) =>
        /\ "Concatenating audio segments..." \notin log
        /\ main_audio_for_assembly.path = audio_segments_info[1].path
        /\ main_audio_for_assembly.real = audio_segments_info[1].real

\* C19 witness: a job with one clip called the assembler, which read that
\* clip as the narration.
C19_Witness ==
    /\ Len(audio_segments_info) = 1
    /\ asm.at = "background_is_9_16"
    /\ main_audio_for_assembly.path = audio_segments_info[1].path
    /\ pc = "returned"

FfmpegNotFound == "ERROR: ffmpeg command not found. Cannot concatenate audio."

\* C20: when the job has more than one narration clip and ffmpeg is not
\* there to concatenate them, the job does not fail at that step: the error
\* is logged and the job goes on to the assembler with the first segment's
\* audio alone as the narration track.
C20_NoFfmpegFallsBack ==
    FfmpegNotFound \in log =>
        /\ Len(audio_segments_info) > 1
        /\ pc \in {"assemble", "finally", "returned"}
        /\ pc = "assemble" => (error = "none" /\ Last(stages) = "BACKGROUND_READY")
        /\ pc \in {"finally", "returned"} => AssembleCalled
        /\ main_audio_for_assembly.path = audio_segments_info[1].path
        /\ main_audio_for_assembly.real = audio_segments_info[1].real

\* C20 witness: a job of several clips found no ffmpeg and called the
\* assembler with the first clip.
C20_Witness ==
    /\ FfmpegNotFound \in log
    /\ Len(audio_segments_info) >= 2
    /\ AssembleCalled
    /\ main_audio_for_assembly.path = audio_segments_info[1].path
    /\ main_audio_for_assembly.real < SumOf(audio_segments_info, "real")

\* A job in which no tool and no file operation failed and whose content
\* gave at least one slide.
CleanJob == ~tool_failed /\ AllSegments(title, post_body, comments) # <<>>

\* C22: on success generate_reel returns
\* output_directory/{prefix}_{reel_id}.{format}: a job that nothing fails
\* ends with the final video at that path, moved out of the temp directory.
C22_SuccessReturnsRelocatedVideo ==
    (pc = "returned" /\ CleanJob) =>
        /\ asm.video_written
        /\ result = FinalReelFilename
        /\ output_dir_files = {FinalReelFilename}

InStages(s) == \E i \in 1..Len(stages) : stages[i] = s

\* C29: wherever generate_reel is past segment synthesis, image_paths and
\* audio_segments_info are equally long and pairwise of the same segment, in
\* the order title, body segments by index, at most three comments; a
\* segment whose synthesis or rendering fails aborts the job.
C29_SlidesAlignedWithAudio ==
    /\ InStages("SEGMENTS_SYNTHESIZED") =>
          LET all == AllSegments(title, post_body, comments)
          IN  /\ Len(image_paths) = Len(audio_segments_info)
              /\ Len(image_paths) = Len(all)
              /\ \A i \in 1..Len(image_paths) :
                    /\ image_paths[i] = audio_segments_info[i].path
                    /\ image_paths[i] = SegmentName(all[i])
    /\ Len(image_paths) # Len(audio_segments_info) =>
          (Last(stages) = "FAILED" /\ pc \in {"finally", "returned"})

\* C29 witness: a job with a title, a body of two segments and three of its
\* four comments got past synthesis with six slides.
C29_Witness ==
    /\ InStages("SEGMENTS_SYNTHESIZED")
    /\ Len(comments) > CommentsUsed
    /\ Len(image_paths) = 6
    /\ image_paths[1] = <<"title", 0>>
    /\ image_paths[3] = <<"body", 1>>
    /\ image_paths[6] = <<"comment", 2>>
    /\ audio_segments_info[6].path = <<"comment", 2>>

PlaceholderUsed == "Using placeholder content due to error." \in log

HasComponent(path, name) == \E i \in 1..Len(path) : path[i] = name

\* C21: two generate_reel jobs with distinct reel_id values never read or
\* write the same path for a temporary or intermediate file: every such path
\* contains the job's own reel_id.
C21_JobsShareNoPath ==
    /\ \A j \in Jobs : \A path \in p_touched[j] : HasComponent(path, j)
    /\ \A i, j \in Jobs : i # j => p_touched[i] \cap p_touched[j] = {}

\* Apart from the downloaded background media every path a job touches, and
\* every path the assembler would write, is the job's own.
OnlyDownloadsShared ==
    /\ \A j \in Jobs : \A path \in p_touched[j] :
          HasComponent(path, j) \/ path \in ChopPaths(j, [video |-> "url", audio |-> "url"])
    /\ \A j \in Jobs : \A path \in AssemblyPaths(j, FinalReelFilename) :
          HasComponent(path, j)
    /\ (\A j \in Jobs : p_bg[j] = [video |-> "local", audio |-> "local"])
          => C21_JobsShareNoPath

(***************************************************************************)
(* Claims about handle_reel_command and the post scanner.                  *)
(***************************************************************************)
NoDuplicates(seq) == \A i, j \in 1..Len(seq) : i # j => seq[i] # seq[j]

\* select_best_post has returned a post in this run of the command
AutoSelected ==
    /\ c_url = None
    /\ c_pc \in {"outdir", "generate", "upload", "returned"}
    /\ c_selected # NoPost

\* C23: across any sequence of automatic-selection runs no post is selected
\* twice: select_best_post never returns a post whose ID is already in the
\* processed-IDs file, every selected post's ID is appended to the file, and
\* the entries the file had stay as they were.
C23_NoPostSelectedTwice ==
    /\ NoDuplicates(c_history)
    /\ AutoSelected => \A i \in 1..Len(c_on_file) : c_on_file[i] # c_selected.id
    /\ AutoSelected => processed_file = Append(c_on_file, c_selected.id)
    /\ IsPrefix(c_on_file, processed_file)

\* As long as every read and every append of the file succeeds, no post is
\* selected twice; and whatever fails, the file only grows at its end.
NoReselectionWithoutIoFailure ==
    /\ ~c_io_failed => C23_NoPostSelectedTwice
    /\ IsPrefix(c_on_file, processed_file)

\* select_best_post has been called in this run of the command
SelectCalled ==
    /\ c_url = None
    /\ c_pc \in {"outdir", "generate", "upload", "returned"}
    /\ c_submissions # <<>>

Passes(s) ==
    /\ ~s.stickied
    /\ ALLOW_NSFW_CONTENT \/ ~s.over_18
    /\ s.id \notin c_loaded

\* C24: select_best_post returns None when no submission passes the filters;
\* otherwise it returns a submission that is not stickied, is not NSFW when
\* ALLOW_NSFW_CONTENT is false, is not in the processed-ID set, and whose
\* score is maximal among the submissions that pass.
C24_BestPostSelected ==
    /\ select_best_post(<<>>, c_loaded, ALLOW_NSFW_CONTENT) = NoPost
    /\ SelectCalled =>
          LET passing == {i \in 1..Len(c_submissions) : Passes(c_submissions[i])}
          IN  IF passing = {}
                 THEN c_selected = NoPost
                 ELSE \E i \in passing :
                         /\ c_selected = c_submissions[i]
                         /\ \A j \in passing :
                               c_submissions[j].score <= c_selected.score

\* a stickied post of a higher score was passed over for the selected one
C24_Witness ==
    /\ SelectCalled
    /\ c_selected # NoPost
    /\ \E i \in 1..Len(c_submissions) :
          /\ c_submissions[i].stickied
          /\ c_submissions[i].score > c_selected.score

\* C28: handle_reel_command calls upload_reel only when generate_reel has
\* returned the path of an existing file and --no_upload was not given; when
\* generation fails or returns None, no upload is made in that run.
C28_UploadOnlyAfterGeneration ==
    /\ c_uploads > 0 => c_generated = "file" /\ ~c_no_upload
    /\ c_generated \in {"raises", None, "missing"} => c_uploads = 0

\* generate_reel returned None, uploading was not switched off, and the run
\* ended without a call of upload_reel
C28_Witness ==
    /\ c_pc = "returned"
    /\ c_generated = None
    /\ ~c_no_upload
    /\ c_uploads = 0

(***************************************************************************)
(* Claims about upload_reel.                                               *)
(***************************************************************************)
Published == {"FINISHED", "PUBLISHED"}

\* the polling loop was reached and upload_reel is over
PollingOver == u_pc = "returned" /\ u_final_media_id # Unbound

NoPollPublished == \A i \in 1..Len(u_polls) : u_polls[i] \notin Published

\* C26: upload_reel makes at most max_polling_attempts status requests; it
\* returns a media ID only after a poll reports FINISHED or PUBLISHED; and if
\* no poll does so within max_polling_attempts (also when every poll fails
\* with a request error, and when max_polling_attempts is 0) it ends by
\* raising the APIError of the timeout.
C26_PollingBounded ==
    /\ Len(u_polls) <= u_max
    /\ u_result \notin {"running", "raised"} =>
          Len(u_polls) > 0 /\ Last(u_polls) \in Published
    /\ PollingOver /\ NoPollPublished =>
          u_result = "raised" /\ u_error = "APIError: timed out"

\* The loop is bounded and ends in the APIError of the timeout if some poll
\* brought a status_code, in an UnboundLocalError if none did.
PollingEndsInSomeError ==
    /\ Len(u_polls) <= u_max
    /\ u_result \notin {"running", "raised"} =>
          Len(u_polls) > 0 /\ Last(u_polls) \in Published
    /\ PollingOver /\ NoPollPublished =>
          /\ u_result = "raised"
          /\ Len(u_polls) = u_max
          /\ u_error = IF \A i \in 1..Len(u_polls) :
                             u_polls[i] \in {"HTTP_ERROR", "REQUEST_ERROR"}
                          THEN "UnboundLocalError"
                          ELSE "APIError: timed out"

\* C27: when a status poll reports ERROR or EXPIRED, polling stops at once:
\* upload_reel raises the APIError of the failed publish and makes no further
\* status request.
C27_FailedPublishStopsPolling ==
    \A i \in 1..Len(u_polls) :
        u_polls[i] \in {"ERROR", "EXPIRED"} =>
            /\ i = Len(u_polls)
            /\ u_pc = "returned"
            /\ u_result = "raised"
            /\ u_error = "APIError: publishing failed"

\* A poll that reports ERROR or EXPIRED is followed by the next poll like
\* any other: the upload ends in the timeout, or in a media ID.
FailedPublishIsRetried ==
    (u_pc = "returned" /\ \E i \in 1..Len(u_polls) : u_polls[i] \in {"ERROR", "EXPIRED"})
        => \/ u_result = "raised" /\ u_error = "APIError: timed out"
                                  /\ Len(u_polls) = u_max
           \/ u_result \notin {"running", "raised"} /\ Last(u_polls) \in Published

(***************************************************************************)
(* Claims about cleanup_temp_files.                                        *)
(***************************************************************************)
\* cleanup_temp_files was called with a reel_id and has returned
CleanedReel == k_pc = "returned" /\ k_reel_id # None

\* everything but the reel's own directory is as it was
OthersUnchanged ==
    /\ k_base = k_before.base
    /\ k_files = k_before.files
    /\ k_dirs \ {k_reel_id} = k_before.dirs \ {k_reel_id}
    /\ k_reel_id \notin k_before.dirs => k_dirs = k_before.dirs

\* C25 as stated: cleanup_temp_files called with a reel_id removes exactly
\* that reel's temp directory: afterwards the directory does not exist,
\* every other reel's directory and the base directory are unchanged, and
\* for a reel_id with no directory nothing changes and no error is raised.
C25_RemovesExactlyThatDirectory ==
    CleanedReel =>
        /\ k_reel_id \notin k_dirs
        /\ OthersUnchanged
        /\ ~k_raised

\* C25 amended: the same, except that the reel's directory stays when
\* shutil.rmtree fails with an OSError, which is printed and not raised.
C25_RemovesThatDirectoryUnlessRmtreeFails ==
    CleanedReel =>
        /\ ~k_rmtree_failed => k_reel_id \notin k_dirs
        /\ k_rmtree_failed => k_reel_id \in k_dirs
        /\ OthersUnchanged
        /\ ~k_raised

\* one reel's directory was removed while another reel's directory stayed
C25_Witness ==
    /\ CleanedReel
    /\ k_reel_id \in k_before.dirs
    /\ k_reel_id \notin k_dirs
    /\ k_dirs # {}
    /\ k_files # {}

====
